---- MODULE Spec2Model ----
(***************************************************************************)
(* GtkAccessibleValue (gtk/gtkaccessiblevalue.c): the reference counted    *)
(* value container, its integer, number, string and reference kinds, and   *)
(* the attribute tables.                                                   *)
(*                                                                         *)
(* Every C function is an operator from a memory snapshot S (and its       *)
(* arguments) to the snapshot after the call; an action applies one call   *)
(* to the current memory.  S has the fields                                *)
(*   heap    the GtkAccessibleValue instances, by address                  *)
(*   weak    the (object, data) pairs registered with g_object_weak_ref    *)
(*           for the notify remove_weak_ref                                *)
(*   strmem  the character storage: g_strdup chunks, the caller's buffer,  *)
(*           the "" literal                                                *)
(*   faults  what a memory checker would report                            *)
(*   va      the va_list of the variadic caller: its arguments and how     *)
(*           many of them have been read                                   *)
(* A function that returns a value as well gives [S, ret].                 *)
(***************************************************************************)
EXTENDS Integers, Sequences, FiniteSets, TLC

VARIABLES heap, weak_refs, strmem, faults, va_args, objects, ret

vars == <<heap, weak_refs, strmem, faults, va_args, objects, ret>>

(***************************************************************************)
(* Bounds and input sets.                                                  *)
(***************************************************************************)
\* number of GtkAccessibleValue allocations that can be live at once
MaxValues == 2
\* number of gtk_accessible_value_ref calls made on one value
MaxRefs == 1

Slots == 1..MaxValues
\* the GtkAccessible objects of the run
Objects == {1, 2}
Chars == {"a", "b"}
\* NUL-terminated strings, written without the terminator
Strings == {<<>>, <<"a">>, <<"b">>, <<"a", "b">>}
Ints == {-1, 0}
\* the widest function that returns a value, gtk_accessible_value_equal, takes
\* two values
MaxArgs == 2

NULL == 0

\* number of arguments a variadic caller passes in one call
MaxVarArgs == 2

(***************************************************************************)
(* double.  A finite double is a fixed-point number in units of 0.0001     *)
(* (1.0 is 10000); NaN and the infinities are values of their own, with    *)
(* the IEEE 754 rules for >, < and -.                                      *)
(***************************************************************************)
Fin(n) == [k |-> "fin", v |-> n]
NaN == [k |-> "nan", v |-> 0]
PInf == [k |-> "inf", v |-> 1]
NInf == [k |-> "inf", v |-> -1]

\* 0.0, 0.001, 1.0, 1.0005, 1.002: on every pair of these the double
\* subtraction and comparison give the verdict of the exact ones
FiniteDoubles == {Fin(0), Fin(10), Fin(10000), Fin(10005), Fin(10020)}
Doubles == FiniteDoubles \cup {NaN, PInf, NInf}

\* a > b
DGreater(a, b) ==
  IF a.k = "nan" \/ b.k = "nan" THEN FALSE
  ELSE IF a.k = "inf" THEN (a.v = 1 /\ ~(b.k = "inf" /\ b.v = 1))
  ELSE IF b.k = "inf" THEN b.v = -1
  ELSE a.v > b.v

\* a < b
DLess(a, b) == DGreater(b, a)

\* a - b
DSub(a, b) ==
  IF a.k = "nan" \/ b.k = "nan" THEN NaN
  ELSE IF a.k = "inf" /\ b.k = "inf" THEN (IF a.v = b.v THEN NaN ELSE a)
  ELSE IF a.k = "inf" THEN a
  ELSE IF b.k = "inf" THEN [k |-> "inf", v |-> 0 - b.v]
  ELSE Fin(a.v - b.v)

\* the literal 0.001 of gtk_number_accessible_value_equal, in units of 0.0001
Tolerance == 10

\* G_APPROX_VALUE with <= for <
G_APPROX_VALUE_inclusive(a, b, epsilon) ==
  LET diff == IF DGreater(a, b) THEN DSub(a, b) ELSE DSub(b, a)
  IN DLess(diff, epsilon) \/ diff = epsilon

\* G_APPROX_VALUE without the absolute value: a - b < epsilon
G_APPROX_VALUE_one_sided(a, b, epsilon) == DLess(DSub(a, b), epsilon)

\* G_APPROX_VALUE (a, b, epsilon): (((a) > (b) ? (a) - (b) : (b) - (a)) < (epsilon))
G_APPROX_VALUE(a, b, epsilon) ==
  DLess(IF DGreater(a, b) THEN DSub(a, b) ELSE DSub(b, a), epsilon)

(***************************************************************************)
(* Character storage.                                                      *)
(***************************************************************************)
NullStr == <<"null", 0>>
\* the caller's own buffer, passed to gtk_string_accessible_value_new
CallerBuf == <<"caller", 0>>
\* the string literal ""
EmptyLiteral == <<"literal", 0>>
\* the chunk g_strdup returns for the value at address self
Chunk(self) == <<"chunk", self>>

StrAddrs == {CallerBuf, EmptyLiteral} \cup {Chunk(s) : s \in Slots}

\* strlen
strlen(S, str) == Len(S.strmem[str])

\* g_strdup into the chunk at dst: a character by character copy
g_strdup(S, str, dst) ==
  [S EXCEPT !.strmem[dst] = [i \in 1..strlen(S, str) |-> S.strmem[str][i]]]

\* g_free of a character chunk
g_free_str(S, str) ==
  IF str = NullStr THEN S ELSE [S EXCEPT !.strmem[str] = <<>>]

\* g_strcmp0 (a, b) == 0
g_strcmp0_eq(S, a, b) ==
  IF a = NullStr \/ b = NullStr THEN a = b ELSE S.strmem[a] = S.strmem[b]

(***************************************************************************)
(* GtkAccessibleValue instances.                                           *)
(***************************************************************************)
\* what a constructor was called with: an int, a double, the characters of a
\* string or an object
NoArg == [i |-> 0, d |-> Fin(0), s |-> <<>>, o |-> NULL]

\* g_malloc0: every field zero.  st, class0, nref, nunref, nfinalize, events
\* and arg are the history of the address, not fields of the C struct.
ZeroValue ==
  [st |-> "unused", value_class |-> "NULL", ref_count |-> 0,
   int_value |-> 0, number_value |-> Fin(0),
   string_value |-> NullStr, length |-> 0, ref |-> NULL,
   class0 |-> "NULL", nref |-> 0, nunref |-> 0, nfinalize |-> 0,
   events |-> <<>>, arg |-> NoArg]

\* sizeof (GtkAccessibleValue) where pointers take 8 bytes: the class pointer
\* and the reference count; each payload below is padded to 8 bytes
sizeof_GtkAccessibleValue == 16

GTK_INT_ACCESSIBLE_VALUE ==
  [type_name |-> "GtkIntAccessibleValue",
   instance_size |-> sizeof_GtkAccessibleValue + 8,
   init |-> "NULL", finalize |-> "NULL",
   equal |-> "gtk_int_accessible_value_equal",
   print |-> "gtk_int_accessible_value_print"]

GTK_NUMBER_ACCESSIBLE_VALUE ==
  [type_name |-> "GtkNumberAccessibleValue",
   instance_size |-> sizeof_GtkAccessibleValue + 8,
   init |-> "NULL", finalize |-> "NULL",
   equal |-> "gtk_number_accessible_value_equal",
   print |-> "gtk_number_accessible_value_print"]

GTK_STRING_ACCESSIBLE_VALUE ==
  [type_name |-> "GtkStringAccessibleValue",
   instance_size |-> sizeof_GtkAccessibleValue + 16, init |-> "NULL",
   finalize |-> "gtk_string_accessible_value_finalize",
   equal |-> "gtk_string_accessible_value_equal",
   print |-> "gtk_string_accessible_value_print"]

GTK_REFERENCE_ACCESSIBLE_VALUE ==
  [type_name |-> "GtkReferenceAccessibleValue",
   instance_size |-> sizeof_GtkAccessibleValue + 8, init |-> "NULL",
   finalize |-> "gtk_reference_accessible_value_finalize",
   equal |-> "gtk_reference_accessible_value_equal",
   print |-> "gtk_reference_accessible_value_print"]

ValueClasses ==
  {GTK_INT_ACCESSIBLE_VALUE, GTK_NUMBER_ACCESSIBLE_VALUE,
   GTK_STRING_ACCESSIBLE_VALUE, GTK_REFERENCE_ACCESSIBLE_VALUE}

\* value_class == NULL
NULL_CLASS ==
  [type_name |-> "NULL", instance_size |-> 0, init |-> "NULL",
   finalize |-> "NULL", equal |-> "NULL", print |-> "NULL"]

\* descriptors a caller outside this file may hand to
\* gtk_accessible_value_alloc: one with an init hook, one whose instance_size
\* is smaller than the header, one that declares exactly the header
CLASS_WITH_INIT ==
  [type_name |-> "ClassWithInit",
   instance_size |-> sizeof_GtkAccessibleValue + 8, init |-> "init",
   finalize |-> "NULL", equal |-> "NULL", print |-> "NULL"]

CLASS_TOO_SMALL ==
  [type_name |-> "ClassTooSmall",
   instance_size |-> sizeof_GtkAccessibleValue - 8, init |-> "init",
   finalize |-> "NULL", equal |-> "NULL", print |-> "NULL"]

CLASS_HEADER_ONLY ==
  [type_name |-> "ClassHeaderOnly",
   instance_size |-> sizeof_GtkAccessibleValue, init |-> "NULL",
   finalize |-> "NULL", equal |-> "NULL", print |-> "NULL"]

AllocClasses ==
  ValueClasses \cup {NULL_CLASS, CLASS_WITH_INIT, CLASS_TOO_SMALL, CLASS_HEADER_ONLY}

\* the descriptor a value_class pointer points to
Class(name) == CHOOSE c \in AllocClasses : c.type_name = name

Live(S, self) == self \in Slots /\ S.heap[self].st = "live"

(***************************************************************************)
(* gtk_accessible_value_alloc, _ref                                        *)
(***************************************************************************)
\* value_class->init (res)
CallInit(S, value_class, res) ==
  IF value_class.init # "NULL"
  THEN [S EXCEPT !.heap[res].events = Append(@, "init")]
  ELSE S

\* gtk_accessible_value_alloc without the check of instance_size
gtk_accessible_value_alloc_any_size(S, value_class, res) ==
  IF value_class = NULL_CLASS
  THEN [S |-> S, ret |-> NULL, critical |-> TRUE]
  ELSE LET S1 == [S EXCEPT !.heap[res] =
                    [ZeroValue EXCEPT !.st = "live",
                                      !.ref_count = 1,
                                      !.value_class = value_class.type_name]]
       IN [S |-> CallInit(S1, value_class, res), ret |-> res,
           critical |-> FALSE]

\* res is the address g_malloc0 returns
gtk_accessible_value_alloc(S, value_class, res) ==
  IF value_class = NULL_CLASS
  THEN [S |-> S, ret |-> NULL, critical |-> TRUE]
  ELSE IF ~(value_class.instance_size >= sizeof_GtkAccessibleValue)
  THEN [S |-> S, ret |-> NULL, critical |-> TRUE]
  ELSE LET S1 == [S EXCEPT !.heap[res] =
                    [ZeroValue EXCEPT !.st = "live",
                                      !.ref_count = 1,
                                      !.value_class = value_class.type_name]]
       IN [S |-> CallInit(S1, value_class, res), ret |-> res,
           critical |-> FALSE]

\* gtk_accessible_value_ref that returns self without counting the reference
gtk_accessible_value_ref_uncounted(S, self) == S

gtk_accessible_value_ref(S, self) ==
  IF self = NULL THEN S
  ELSE [S EXCEPT !.heap[self].ref_count = @ + 1]

(***************************************************************************)
(* The finalize hooks and gtk_accessible_value_unref                       *)
(***************************************************************************)
gtk_string_accessible_value_finalize(S, value) ==
  g_free_str(S, S.heap[value].string_value)

\* g_object_weak_unref that drops every registration of the object
g_object_weak_unref_every_data(S, object, data) ==
  IF <<object, data>> \in S.weak
  THEN [S EXCEPT !.weak = {w \in @ : w[1] # object},
                 !.heap[data].events = Append(@, "weak_unref")]
  ELSE S

\* g_object_weak_unref (object, remove_weak_ref, data)
g_object_weak_unref(S, object, data) ==
  IF <<object, data>> \in S.weak
  THEN [S EXCEPT !.weak = @ \ {<<object, data>>},
                 !.heap[data].events = Append(@, "weak_unref")]
  ELSE [S EXCEPT !.faults = @ \cup {"weak_unref_not_registered"}]

\* gtk_reference_accessible_value_finalize that leaves the notify registered
gtk_reference_accessible_value_finalize_keeps_notify(S, value) == S

gtk_reference_accessible_value_finalize(S, value) ==
  IF S.heap[value].ref # NULL
  THEN g_object_weak_unref(S, S.heap[value].ref, value)
  ELSE S

\* self->value_class->finalize (self)
CallFinalize(S, self) ==
  LET fn == Class(S.heap[self].value_class).finalize
      S1 == [S EXCEPT !.heap[self].nfinalize = @ + 1,
                      !.heap[self].events = Append(@, "finalize")]
  IN CASE fn = "gtk_string_accessible_value_finalize" ->
            gtk_string_accessible_value_finalize(S1, self)
       [] fn = "gtk_reference_accessible_value_finalize" ->
            gtk_reference_accessible_value_finalize(S1, self)

\* g_free (self): the storage is gone; the history of the address stays
g_free(S, self) ==
  [S EXCEPT !.heap[self] =
     [ZeroValue EXCEPT !.st = "freed",
                       !.class0 = S.heap[self].class0,
                       !.nfinalize = S.heap[self].nfinalize,
                       !.events = Append(S.heap[self].events, "free")]]

\* gtk_accessible_value_unref that runs the finalize hook before it looks at
\* the count
gtk_accessible_value_unref_finalizes_early(S, self) ==
  IF self = NULL THEN S
  ELSE
    LET S1 == [S EXCEPT !.heap[self].ref_count = @ - 1]
        S2 == IF Class(S1.heap[self].value_class).finalize # "NULL"
              THEN CallFinalize(S1, self)
              ELSE S1
    IN IF S2.heap[self].ref_count = 0 THEN g_free(S2, self) ELSE S2

gtk_accessible_value_unref(S, self) ==
  IF self = NULL THEN S
  ELSE
    LET S1 == [S EXCEPT !.heap[self].ref_count = @ - 1]
    IN IF S1.heap[self].ref_count = 0
       THEN LET S2 == IF Class(S1.heap[self].value_class).finalize # "NULL"
                      THEN CallFinalize(S1, self)
                      ELSE S1
            IN g_free(S2, self)
       ELSE S1

(***************************************************************************)
(* Printing.  A GString buffer is the sequence of its characters.          *)
(***************************************************************************)
DigitChars == <<"0", "1", "2", "3", "4", "5", "6", "7", "8", "9">>

RECURSIVE Decimal(_)
Decimal(n) ==
  IF n < 10 THEN <<DigitChars[n + 1]>>
  ELSE Decimal(n \div 10) \o <<DigitChars[(n % 10) + 1]>>

\* printf "%d"
FormatD(n) == IF n < 0 THEN <<"-">> \o Decimal(0 - n) ELSE Decimal(n)

RECURSIVE StripZeros(_)
StripZeros(s) ==
  IF s # <<>> /\ s[Len(s)] = "0" THEN StripZeros(SubSeq(s, 1, Len(s) - 1)) ELSE s

\* the four decimals of a fixed-point fraction, trailing zeros dropped
Fraction(f) ==
  StripZeros(<<DigitChars[(f \div 1000) + 1], DigitChars[((f \div 100) % 10) + 1],
               DigitChars[((f \div 10) % 10) + 1], DigitChars[(f % 10) + 1]>>)

\* printf "%g", for the doubles of the model (at most six significant digits)
FormatG(d) ==
  IF d.k = "nan" THEN <<"n", "a", "n">>
  ELSE IF d.k = "inf"
       THEN (IF d.v < 0 THEN <<"-">> ELSE <<>>) \o <<"i", "n", "f">>
  ELSE LET m == IF d.v < 0 THEN 0 - d.v ELSE d.v
           frac == Fraction(m % 10000)
       IN (IF d.v < 0 THEN <<"-">> ELSE <<>>)
          \o Decimal(m \div 10000)
          \o (IF frac = <<>> THEN <<>> ELSE <<".">> \o frac)

\* G_OBJECT_TYPE_NAME (object) followed by the "%p" of its address
FormatObject(object) == <<"O", "b", "j", "<", "0", "x">> \o Decimal(object) \o <<">">>

gtk_int_accessible_value_print(S, value, buffer) ==
  buffer \o FormatD(S.heap[value].int_value)

gtk_number_accessible_value_print(S, value, buffer) ==
  buffer \o FormatG(S.heap[value].number_value)

\* g_string_append (buffer, self->value)
gtk_string_accessible_value_print(S, value, buffer) ==
  buffer \o S.strmem[S.heap[value].string_value]

gtk_reference_accessible_value_print(S, value, buffer) ==
  IF S.heap[value].ref # NULL
  THEN buffer \o FormatObject(S.heap[value].ref)
  ELSE buffer \o <<"<", "n", "u", "l", "l", ">">>

\* the buffer after the call
gtk_accessible_value_print(S, self, buffer) ==
  IF self = NULL THEN buffer
  ELSE LET fn == Class(S.heap[self].value_class).print
       IN CASE fn = "NULL" -> buffer
            [] fn = "gtk_int_accessible_value_print" ->
                 gtk_int_accessible_value_print(S, self, buffer)
            [] fn = "gtk_number_accessible_value_print" ->
                 gtk_number_accessible_value_print(S, self, buffer)
            [] fn = "gtk_string_accessible_value_print" ->
                 gtk_string_accessible_value_print(S, self, buffer)
            [] fn = "gtk_reference_accessible_value_print" ->
                 gtk_reference_accessible_value_print(S, self, buffer)

\* the address of the character data g_string_free (buffer, FALSE) hands over
GStringData == <<"gstring", 0>>

\* [sp, s]: the returned pointer and the characters it points to
gtk_accessible_value_to_string(S, self) ==
  IF self = NULL THEN [sp |-> NullStr, s |-> <<>>]
  ELSE LET buffer == <<>>
       IN [sp |-> GStringData, s |-> gtk_accessible_value_print(S, self, buffer)]

(***************************************************************************)
(* Equality                                                                *)
(***************************************************************************)
gtk_int_accessible_value_equal(S, value_a, value_b) ==
  S.heap[value_a].int_value = S.heap[value_b].int_value

gtk_number_accessible_value_equal(S, value_a, value_b) ==
  G_APPROX_VALUE(S.heap[value_a].number_value, S.heap[value_b].number_value,
                 Fin(Tolerance))

gtk_string_accessible_value_equal(S, value_a, value_b) ==
  IF S.heap[value_a].length # S.heap[value_b].length
  THEN FALSE
  ELSE g_strcmp0_eq(S, S.heap[value_a].string_value, S.heap[value_b].string_value)

gtk_reference_accessible_value_equal(S, value_a, value_b) ==
  S.heap[value_a].ref = S.heap[value_b].ref

\* (* fn) (value_a, value_b)
CallEqualFn(S, fn, value_a, value_b) ==
  CASE fn = "gtk_int_accessible_value_equal" ->
         gtk_int_accessible_value_equal(S, value_a, value_b)
    [] fn = "gtk_number_accessible_value_equal" ->
         gtk_number_accessible_value_equal(S, value_a, value_b)
    [] fn = "gtk_string_accessible_value_equal" ->
         gtk_string_accessible_value_equal(S, value_a, value_b)
    [] fn = "gtk_reference_accessible_value_equal" ->
         gtk_reference_accessible_value_equal(S, value_a, value_b)

\* gtk_accessible_value_equal without the value_a == value_b shortcut
gtk_accessible_value_equal_no_identity(S, value_a, value_b) ==
  IF value_a = NULL \/ value_b = NULL
  THEN [val |-> value_a = value_b, callee |-> "none"]
  ELSE LET fn == Class(S.heap[value_a].value_class).equal
       IN [val |-> CallEqualFn(S, fn, value_a, value_b), callee |-> fn]

\* [val, callee]: the result and the kind function that computed it
gtk_accessible_value_equal(S, value_a, value_b) ==
  IF value_a = value_b THEN [val |-> TRUE, callee |-> "none"]
  ELSE IF value_a = NULL \/ value_b = NULL THEN [val |-> FALSE, callee |-> "none"]
  ELSE LET fn == Class(S.heap[value_a].value_class).equal
       IN [val |-> CallEqualFn(S, fn, value_a, value_b), callee |-> fn]

(***************************************************************************)
(* The constructors and the accessors                                      *)
(***************************************************************************)
gtk_int_accessible_value_new(S, value, res) ==
  LET S1 == gtk_accessible_value_alloc(S, GTK_INT_ACCESSIBLE_VALUE, res).S
  IN [S1 EXCEPT !.heap[res].int_value = value]

\* [ok, val]: ok is FALSE when a g_return_val_if_fail precondition failed
\* as gtk_int_accessible_value_get, without the check of value_class
gtk_int_accessible_value_get_any_class(S, value) ==
  IF value = NULL THEN [ok |-> FALSE, val |-> 0]
  ELSE [ok |-> TRUE, val |-> S.heap[value].int_value]

gtk_int_accessible_value_get(S, value) ==
  IF value = NULL THEN [ok |-> FALSE, val |-> 0]
  ELSE IF S.heap[value].value_class # GTK_INT_ACCESSIBLE_VALUE.type_name
       THEN [ok |-> FALSE, val |-> 0]
  ELSE [ok |-> TRUE, val |-> S.heap[value].int_value]

gtk_number_accessible_value_new(S, value, res) ==
  LET S1 == gtk_accessible_value_alloc(S, GTK_NUMBER_ACCESSIBLE_VALUE, res).S
  IN [S1 EXCEPT !.heap[res].number_value = value]

gtk_number_accessible_value_get(S, value) ==
  IF value = NULL THEN [ok |-> FALSE, val |-> Fin(0)]
  ELSE IF S.heap[value].value_class # GTK_NUMBER_ACCESSIBLE_VALUE.type_name
       THEN [ok |-> FALSE, val |-> Fin(0)]
  ELSE [ok |-> TRUE, val |-> S.heap[value].number_value]

\* gtk_string_accessible_value_new that keeps the caller's pointer instead of
\* a copy
gtk_string_accessible_value_new_borrows(S, str, res) ==
  LET S1 == gtk_accessible_value_alloc(S, GTK_STRING_ACCESSIBLE_VALUE, res).S
      S2 == [S1 EXCEPT !.heap[res].string_value = str]
  IN [S2 EXCEPT !.heap[res].length = strlen(S2, str)]

gtk_string_accessible_value_new(S, str, res) ==
  LET S1 == gtk_accessible_value_alloc(S, GTK_STRING_ACCESSIBLE_VALUE, res).S
      S2 == g_strdup(S1, str, Chunk(res))
      S3 == [S2 EXCEPT !.heap[res].string_value = Chunk(res)]
  IN [S3 EXCEPT !.heap[res].length = strlen(S3, str)]

gtk_string_accessible_value_get(S, value) ==
  IF value = NULL THEN [ok |-> FALSE, val |-> NullStr]
  ELSE IF S.heap[value].value_class # GTK_STRING_ACCESSIBLE_VALUE.type_name
       THEN [ok |-> FALSE, val |-> NullStr]
  ELSE [ok |-> TRUE, val |-> S.heap[value].string_value]

\* g_object_weak_ref (object, remove_weak_ref, data)
g_object_weak_ref(S, object, data) ==
  [S EXCEPT !.weak = @ \cup {<<object, data>>}]

\* [S, ret]; res is the address g_malloc0 would return
gtk_reference_accessible_value_new(S, ref, res) ==
  IF ref = NULL THEN [S |-> S, ret |-> NULL]
  ELSE LET S1 == gtk_accessible_value_alloc(S, GTK_REFERENCE_ACCESSIBLE_VALUE, res).S
           S2 == [S1 EXCEPT !.heap[res].ref = ref]
       IN [S |-> g_object_weak_ref(S2, S2.heap[res].ref, res), ret |-> res]

gtk_reference_accessible_value_get(S, value) ==
  IF value = NULL THEN [ok |-> FALSE, val |-> NULL]
  ELSE IF S.heap[value].value_class # GTK_REFERENCE_ACCESSIBLE_VALUE.type_name
       THEN [ok |-> FALSE, val |-> NULL]
  ELSE [ok |-> TRUE, val |-> S.heap[value].ref]

(***************************************************************************)
(* remove_weak_ref, run by the object for each registration when it dies   *)
(***************************************************************************)
\* remove_weak_ref that leaves the link as it is
remove_weak_ref_keeps_link(S, data) == S

\* in faults: data pointed to storage that is no live reference value
remove_weak_ref(S, data) ==
  IF Live(S, data) /\ S.heap[data].value_class = GTK_REFERENCE_ACCESSIBLE_VALUE.type_name
  THEN [S EXCEPT !.heap[data].ref = NULL]
  ELSE [S EXCEPT !.faults = @ \cup {"weak_notify_on_freed_value"}]

RECURSIVE NotifyAll(_, _)
NotifyAll(S, datas) ==
  IF datas = {} THEN S
  ELSE LET d == CHOOSE x \in datas : \A y \in datas : x <= y
       IN NotifyAll(remove_weak_ref(S, d), datas \ {d})

\* the weak notifies of a dying object: each registration is called once and
\* dropped
WeakNotify(S, object) ==
  LET datas == {d \in Slots : <<object, d>> \in S.weak}
      S1 == NotifyAll(S, datas)
  IN [S1 EXCEPT !.weak = {w \in @ : w[1] # object}]

(***************************************************************************)
(* The property table                                                      *)
(***************************************************************************)
\* GtkAccessibleState, in the order of its declaration: the enumerator at
\* position i has the value i - 1.  GTK_ACCESSIBLE_STATE_NONE is no member
\* of the sequence: it is the identifier the state functions assert against.
GtkAccessibleState ==
  <<"BUSY", "CHECKED", "DISABLED", "EXPANDED", "GRABBED", "HIDDEN", "INVALID",
    "PRESSED", "SELECTED">>

States == {GtkAccessibleState[i] : i \in DOMAIN GtkAccessibleState}

\* the integer value of an enumerator
StateValue(state) ==
  (CHOOSE i \in DOMAIN GtkAccessibleState : GtkAccessibleState[i] = state) - 1

\* GtkAccessibleProperty, in the order of its declaration: the enumerator at
\* position i has the value i - 1
GtkAccessibleProperty ==
  <<"ACTIVE_DESCENDANT", "AUTOCOMPLETE", "CONTROLS", "DESCRIBED_BY", "FLOW_TO",
    "HAS_POPUP", "LABEL", "LABELLED_BY", "LEVEL", "MULTI_LINE",
    "MULTI_SELECTABLE", "ORIENTATION", "OWNS", "POS_IN_SET", "READ_ONLY",
    "RELEVANT", "REQUIRED", "SET_SIZE", "SORT", "VALUE_MAX", "VALUE_MIN",
    "VALUE_NOW", "VALUE_TEXT">>

Properties == {GtkAccessibleProperty[i] : i \in DOMAIN GtkAccessibleProperty}

\* the integer value of an enumerator
PropertyValue(property) ==
  (CHOOSE i \in DOMAIN GtkAccessibleProperty : GtkAccessibleProperty[i] = property) - 1

Collect(value, ctype, name, ctor) ==
  [value |-> value, ctype |-> ctype, name |-> name, ctor |-> ctor]

\* as collect_states, with the rows of CHECKED and DISABLED exchanged
collect_states_rows_exchanged ==
  <<Collect("BUSY", "BOOLEAN", "busy", "gtk_boolean_accessible_value_new"),
    Collect("DISABLED", "BOOLEAN", "disabled", "gtk_boolean_accessible_value_new"),
    Collect("CHECKED", "ENUM", "checked", "gtk_checked_accessible_value_new"),
    Collect("EXPANDED", "TRISTATE", "expanded", "gtk_expanded_accessible_value_new"),
    Collect("GRABBED", "TRISTATE", "grabbed", "gtk_grabbed_accessible_value_new"),
    Collect("HIDDEN", "BOOLEAN", "hidden", "gtk_boolean_accessible_value_new"),
    Collect("INVALID", "ENUM", "invalid", "gtk_invalid_accessible_value_new"),
    Collect("PRESSED", "ENUM", "pressed", "gtk_pressed_accessible_value_new"),
    Collect("SELECTED", "TRISTATE", "selected", "gtk_selected_accessible_value_new")>>

collect_states ==
  <<Collect("BUSY", "BOOLEAN", "busy", "gtk_boolean_accessible_value_new"),
    Collect("CHECKED", "ENUM", "checked", "gtk_checked_accessible_value_new"),
    Collect("DISABLED", "BOOLEAN", "disabled", "gtk_boolean_accessible_value_new"),
    Collect("EXPANDED", "TRISTATE", "expanded", "gtk_expanded_accessible_value_new"),
    Collect("GRABBED", "TRISTATE", "grabbed", "gtk_grabbed_accessible_value_new"),
    Collect("HIDDEN", "BOOLEAN", "hidden", "gtk_boolean_accessible_value_new"),
    Collect("INVALID", "ENUM", "invalid", "gtk_invalid_accessible_value_new"),
    Collect("PRESSED", "ENUM", "pressed", "gtk_pressed_accessible_value_new"),
    Collect("SELECTED", "TRISTATE", "selected", "gtk_selected_accessible_value_new")>>

\* &collect_states[state]
StatesEntry(state) == collect_states[StateValue(state) + 1]

collect_props ==
  <<Collect("ACTIVE_DESCENDANT", "REF", "activedescendant", "gtk_reference_accessible_value_new"),
    Collect("AUTOCOMPLETE", "ENUM", "autocomplete", "gtk_autocomplete_accessible_value_new"),
    Collect("CONTROLS", "REF", "controls", "gtk_reference_accessible_value_new"),
    Collect("DESCRIBED_BY", "REF", "describedby", "gtk_reference_accessible_value_new"),
    Collect("FLOW_TO", "REF", "flowto", "gtk_reference_accessible_value_new"),
    Collect("HAS_POPUP", "BOOLEAN", "haspopup", "gtk_boolean_accessible_value_new"),
    Collect("LABEL", "STRING", "label", "gtk_string_accessible_value_new"),
    Collect("LABELLED_BY", "REF", "labelledby", "gtk_reference_accessible_value_new"),
    Collect("LEVEL", "INT", "level", "gtk_int_accessible_value_new"),
    Collect("MULTI_LINE", "BOOLEAN", "multiline", "gtk_boolean_accessible_value_new"),
    Collect("MULTI_SELECTABLE", "BOOLEAN", "multiselectable", "gtk_boolean_accessible_value_new"),
    Collect("ORIENTATION", "ENUM", "orientation", "gtk_orientation_accessible_value_new"),
    Collect("OWNS", "REF", "owns", "gtk_reference_accessible_value_new"),
    Collect("POS_IN_SET", "INT", "posinset", "gtk_int_accessible_value_new"),
    Collect("READ_ONLY", "BOOLEAN", "readonly", "gtk_boolean_accessible_value_new"),
    Collect("RELEVANT", "STRING", "relevant", "gtk_string_accessible_value_new"),
    Collect("REQUIRED", "BOOLEAN", "required", "gtk_boolean_accessible_value_new"),
    Collect("SET_SIZE", "INT", "setsize", "gtk_int_accessible_value_new"),
    Collect("SORT", "ENUM", "sort", "gtk_sort_accessible_value_new"),
    Collect("VALUE_MAX", "NUMBER", "valuemax", "gtk_number_accessible_value_new"),
    Collect("VALUE_MIN", "NUMBER", "valuemin", "gtk_number_accessible_value_new"),
    Collect("VALUE_NOW", "NUMBER", "valuenow", "gtk_number_accessible_value_new"),
    Collect("VALUE_TEXT", "STRING", "valuetext", "gtk_string_accessible_value_new")>>

\* what &collect_props[property] points to when property is no enumerator of
\* the table (GTK_ACCESSIBLE_PROPERTY_NONE): not a row of the table; its
\* fields hold whatever lies at that place
OutOfTable == Collect("out_of_table", "out_of_table", "out_of_table", "out_of_table")

\* &collect_props[property]
PropsEntry(property) ==
  IF property \in Properties
  THEN collect_props[PropertyValue(property) + 1]
  ELSE OutOfTable

\* The boolean, tristate and token values are statically allocated, one
\* instance per value; their constructors return the instance's address.
\* The instances of the values named in this file (and of TRUE and
\* GTK_ORIENTATION_VERTICAL), at the addresses -1, -2, ...
StaticValues ==
  <<[kind |-> "boolean", token |-> "FALSE"],
    [kind |-> "autocomplete", token |-> "GTK_ACCESSIBLE_AUTOCOMPLETE_NONE"],
    [kind |-> "orientation", token |-> "GTK_ORIENTATION_HORIZONTAL"],
    [kind |-> "sort", token |-> "GTK_ACCESSIBLE_SORT_NONE"],
    [kind |-> "boolean", token |-> "TRUE"],
    [kind |-> "orientation", token |-> "GTK_ORIENTATION_VERTICAL"],
    [kind |-> "checked", token |-> "GTK_ACCESSIBLE_CHECKED_UNDEFINED"],
    [kind |-> "expanded", token |-> "GTK_ACCESSIBLE_STATE_UNDEFINED"],
    [kind |-> "grabbed", token |-> "GTK_ACCESSIBLE_STATE_UNDEFINED"],
    [kind |-> "invalid", token |-> "GTK_ACCESSIBLE_INVALID_FALSE"],
    [kind |-> "pressed", token |-> "GTK_ACCESSIBLE_PRESSED_UNDEFINED"],
    [kind |-> "selected", token |-> "GTK_ACCESSIBLE_STATE_UNDEFINED"]>>

StaticAddr(kind, token) ==
  0 - (CHOOSE i \in DOMAIN StaticValues :
         StaticValues[i] = [kind |-> kind, token |-> token])

\* as gtk_accessible_value_get_default_for_state, with the case label of
\* GTK_ACCESSIBLE_STATE_HIDDEN left out
gtk_accessible_value_get_default_for_state_without_hidden(state) ==
  IF state = "NONE"
  THEN [ret |-> NULL, critical |-> FALSE, abort |-> TRUE, looked |-> "none"]
  ELSE
    LET cstate == StatesEntry(state)
        v == cstate.value
        r == CASE v \in {"BUSY", "DISABLED"} ->
                    [ret |-> StaticAddr("boolean", "FALSE"), critical |-> FALSE]
               [] v = "CHECKED" ->
                    [ret |-> StaticAddr("checked", "GTK_ACCESSIBLE_CHECKED_UNDEFINED"), critical |-> FALSE]
               [] v = "EXPANDED" ->
                    [ret |-> StaticAddr("expanded", "GTK_ACCESSIBLE_STATE_UNDEFINED"), critical |-> FALSE]
               [] v = "GRABBED" ->
                    [ret |-> StaticAddr("grabbed", "GTK_ACCESSIBLE_STATE_UNDEFINED"), critical |-> FALSE]
               [] v = "INVALID" ->
                    [ret |-> StaticAddr("invalid", "GTK_ACCESSIBLE_INVALID_FALSE"), critical |-> FALSE]
               [] v = "PRESSED" ->
                    [ret |-> StaticAddr("pressed", "GTK_ACCESSIBLE_PRESSED_UNDEFINED"), critical |-> FALSE]
               [] v = "SELECTED" ->
                    [ret |-> StaticAddr("selected", "GTK_ACCESSIBLE_STATE_UNDEFINED"), critical |-> FALSE]
               [] OTHER -> [ret |-> NULL, critical |-> TRUE]
    IN [ret |-> r.ret, critical |-> r.critical, abort |-> FALSE, looked |-> v]

\* [ret, critical, abort, looked]: what is returned, whether g_critical was
\* called, whether g_assert stopped the program, and the value field of the
\* table entry that was read ("none" if the table was not read).  The values
\* are static instances: the call allocates nothing.
gtk_accessible_value_get_default_for_state(state) ==
  IF state = "NONE"
  THEN [ret |-> NULL, critical |-> FALSE, abort |-> TRUE, looked |-> "none"]
  ELSE
    LET cstate == StatesEntry(state)
        v == cstate.value
        r == CASE v \in {"BUSY", "DISABLED", "HIDDEN"} ->
                    [ret |-> StaticAddr("boolean", "FALSE"), critical |-> FALSE]
               [] v = "CHECKED" ->
                    [ret |-> StaticAddr("checked", "GTK_ACCESSIBLE_CHECKED_UNDEFINED"), critical |-> FALSE]
               [] v = "EXPANDED" ->
                    [ret |-> StaticAddr("expanded", "GTK_ACCESSIBLE_STATE_UNDEFINED"), critical |-> FALSE]
               [] v = "GRABBED" ->
                    [ret |-> StaticAddr("grabbed", "GTK_ACCESSIBLE_STATE_UNDEFINED"), critical |-> FALSE]
               [] v = "INVALID" ->
                    [ret |-> StaticAddr("invalid", "GTK_ACCESSIBLE_INVALID_FALSE"), critical |-> FALSE]
               [] v = "PRESSED" ->
                    [ret |-> StaticAddr("pressed", "GTK_ACCESSIBLE_PRESSED_UNDEFINED"), critical |-> FALSE]
               [] v = "SELECTED" ->
                    [ret |-> StaticAddr("selected", "GTK_ACCESSIBLE_STATE_UNDEFINED"), critical |-> FALSE]
               [] OTHER -> [ret |-> NULL, critical |-> TRUE]
    IN [ret |-> r.ret, critical |-> r.critical, abort |-> FALSE, looked |-> v]

\* as gtk_accessible_value_get_default_for_property, with the case label of
\* GTK_ACCESSIBLE_PROPERTY_OWNS left out of the reference properties
gtk_accessible_value_get_default_for_property_without_owns(S, property, res) ==
  LET cstate == PropsEntry(property)
      v == cstate.value
  IN CASE v \in {"ACTIVE_DESCENDANT", "CONTROLS", "DESCRIBED_BY", "FLOW_TO",
                 "LABELLED_BY", "RELEVANT"} ->
            [S |-> S, ret |-> NULL, critical |-> FALSE, looked |-> v]
       [] v \in {"HAS_POPUP", "MULTI_LINE", "MULTI_SELECTABLE", "READ_ONLY",
                 "REQUIRED"} ->
            [S |-> S, ret |-> StaticAddr("boolean", "FALSE"), critical |-> FALSE, looked |-> v]
       [] v \in {"LEVEL", "POS_IN_SET", "SET_SIZE"} ->
            [S |-> gtk_int_accessible_value_new(S, 0, res), ret |-> res, critical |-> FALSE, looked |-> v]
       [] v \in {"VALUE_MAX", "VALUE_MIN", "VALUE_NOW"} ->
            [S |-> gtk_number_accessible_value_new(S, Fin(0), res), ret |-> res, critical |-> FALSE, looked |-> v]
       [] v \in {"LABEL", "VALUE_TEXT"} ->
            [S |-> gtk_string_accessible_value_new(S, EmptyLiteral, res), ret |-> res, critical |-> FALSE, looked |-> v]
       [] v = "AUTOCOMPLETE" ->
            [S |-> S, ret |-> StaticAddr("autocomplete", "GTK_ACCESSIBLE_AUTOCOMPLETE_NONE"), critical |-> FALSE, looked |-> v]
       [] v = "ORIENTATION" ->
            [S |-> S, ret |-> StaticAddr("orientation", "GTK_ORIENTATION_HORIZONTAL"), critical |-> FALSE, looked |-> v]
       [] v = "SORT" ->
            [S |-> S, ret |-> StaticAddr("sort", "GTK_ACCESSIBLE_SORT_NONE"), critical |-> FALSE, looked |-> v]
       [] OTHER -> [S |-> S, ret |-> NULL, critical |-> TRUE, looked |-> v]

\* [S, ret, critical, looked]; res is the address g_malloc0 returns if the
\* call allocates, looked the value field of the table entry that was read
gtk_accessible_value_get_default_for_property(S, property, res) ==
  LET cstate == PropsEntry(property)
      v == cstate.value
  IN CASE v \in {"ACTIVE_DESCENDANT", "CONTROLS", "DESCRIBED_BY", "FLOW_TO",
                 "LABELLED_BY", "OWNS", "RELEVANT"} ->
            [S |-> S, ret |-> NULL, critical |-> FALSE, looked |-> v]
       [] v \in {"HAS_POPUP", "MULTI_LINE", "MULTI_SELECTABLE", "READ_ONLY",
                 "REQUIRED"} ->
            [S |-> S, ret |-> StaticAddr("boolean", "FALSE"), critical |-> FALSE, looked |-> v]
       [] v \in {"LEVEL", "POS_IN_SET", "SET_SIZE"} ->
            [S |-> gtk_int_accessible_value_new(S, 0, res), ret |-> res, critical |-> FALSE, looked |-> v]
       [] v \in {"VALUE_MAX", "VALUE_MIN", "VALUE_NOW"} ->
            [S |-> gtk_number_accessible_value_new(S, Fin(0), res), ret |-> res, critical |-> FALSE, looked |-> v]
       [] v \in {"LABEL", "VALUE_TEXT"} ->
            [S |-> gtk_string_accessible_value_new(S, EmptyLiteral, res), ret |-> res, critical |-> FALSE, looked |-> v]
       [] v = "AUTOCOMPLETE" ->
            [S |-> S, ret |-> StaticAddr("autocomplete", "GTK_ACCESSIBLE_AUTOCOMPLETE_NONE"), critical |-> FALSE, looked |-> v]
       [] v = "ORIENTATION" ->
            [S |-> S, ret |-> StaticAddr("orientation", "GTK_ORIENTATION_HORIZONTAL"), critical |-> FALSE, looked |-> v]
       [] v = "SORT" ->
            [S |-> S, ret |-> StaticAddr("sort", "GTK_ACCESSIBLE_SORT_NONE"), critical |-> FALSE, looked |-> v]
       [] OTHER -> [S |-> S, ret |-> NULL, critical |-> TRUE, looked |-> v]

(***************************************************************************)
(* Decoding: one argument of a va_list, or the content of a GValue, is     *)
(* handed to the constructor of the attribute's row.                       *)
(***************************************************************************)
\* An argument as the caller wrote it: its C type (after the default
\* promotions) and its value.  An int is a number (i) or, for the boolean,
\* tristate and token kinds, the enumerator the caller named (tok).
NoVaArg ==
  [t |-> "none", i |-> 0, d |-> Fin(0), sp |-> NullStr, o |-> NULL, tok |-> "none"]

IntArg(i) == [NoVaArg EXCEPT !.t = "int", !.i = i]
TokenArg(tok) == [NoVaArg EXCEPT !.t = "int", !.tok = tok]
DoubleArg(d) == [NoVaArg EXCEPT !.t = "double", !.d = d]
StringArg(sp) == [NoVaArg EXCEPT !.t = "char*", !.sp = sp]
PointerArg(o) == [NoVaArg EXCEPT !.t = "gpointer", !.o = o]

\* as va_arg, without moving to the next argument
va_arg_stays(S, type) ==
  [S |-> S, value |-> S.va.items[S.va.pos + 1], type |-> type]

\* va_arg (*args, type): the next argument, read as type; the list moves on
va_arg(S, type) ==
  [S |-> [S EXCEPT !.va.pos = @ + 1], value |-> S.va.items[S.va.pos + 1],
   type |-> type]

\* the type va_arg reads for a collected type
VaType(ctype) ==
  CASE ctype \in {"BOOLEAN", "INT", "TRISTATE", "ENUM"} -> "int"
    [] ctype = "NUMBER" -> "double"
    [] ctype = "STRING" -> "char*"
    [] ctype = "REF" -> "gpointer"
    [] OTHER -> "none"

\* a GValue: the type it holds and the content
GValue(g_type, v) == [g_type |-> g_type, v |-> v]

\* the type the g_value_get_ function of a collected type expects
GValueType(ctype) ==
  CASE ctype = "BOOLEAN" -> "gboolean"
    [] ctype \in {"INT", "TRISTATE"} -> "gint"
    [] ctype = "ENUM" -> "GEnum"
    [] ctype = "NUMBER" -> "gdouble"
    [] ctype = "STRING" -> "gchararray"
    [] ctype = "REF" -> "GObject"
    [] OTHER -> "none"

\* g_value_get_boolean, _int, _enum, _double, _string, _object on a GValue
\* that holds the type
g_value_get(value, g_type) == value.v

\* the kind of static value a constructor outside this file returns
CtorKind ==
  [gtk_boolean_accessible_value_new |-> "boolean",
   gtk_checked_accessible_value_new |-> "checked",
   gtk_expanded_accessible_value_new |-> "expanded",
   gtk_grabbed_accessible_value_new |-> "grabbed",
   gtk_invalid_accessible_value_new |-> "invalid",
   gtk_pressed_accessible_value_new |-> "pressed",
   gtk_selected_accessible_value_new |-> "selected",
   gtk_autocomplete_accessible_value_new |-> "autocomplete",
   gtk_orientation_accessible_value_new |-> "orientation",
   gtk_sort_accessible_value_new |-> "sort"]

\* the C type of the parameter of a constructor; the constructors outside
\* this file take the int that the casts of the switch give them
CtorArgType(ctor) ==
  CASE ctor = "gtk_int_accessible_value_new" -> "int"
    [] ctor = "gtk_number_accessible_value_new" -> "double"
    [] ctor = "gtk_string_accessible_value_new" -> "char*"
    [] ctor = "gtk_reference_accessible_value_new" -> "gpointer"
    [] ctor \in DOMAIN CtorKind -> "int"
    [] OTHER -> "none"

\* GtkAccessibleCollectType without GTK_ACCESSIBLE_COLLECT_INVALID
CollectTypes ==
  {"BOOLEAN", "INT", "TRISTATE", "ENUM", "NUMBER", "STRING", "REF"}

\* res = (* ctor) (value): [S, ret]
CallCtor(S, ctor, value, res) ==
  CASE ctor = "gtk_int_accessible_value_new" ->
         [S |-> gtk_int_accessible_value_new(S, value.i, res), ret |-> res]
    [] ctor = "gtk_number_accessible_value_new" ->
         [S |-> gtk_number_accessible_value_new(S, value.d, res), ret |-> res]
    [] ctor = "gtk_string_accessible_value_new" ->
         [S |-> gtk_string_accessible_value_new(S, value.sp, res), ret |-> res]
    [] ctor = "gtk_reference_accessible_value_new" ->
         gtk_reference_accessible_value_new(S, value.o, res)
    [] ctor \in DOMAIN CtorKind ->
         [S |-> S, ret |-> StaticAddr(CtorKind[ctor], value.tok)]
    [] OTHER -> [S |-> S, ret |-> NULL]

\* one case of the switch of the two va_list functions
CollectCase(S, cstate, type, res) ==
  LET a == va_arg(S, type)
      r == CallCtor(a.S, cstate.ctor, a.value, res)
  IN [S |-> r.S, ret |-> r.ret, critical |-> FALSE,
      ctor |-> cstate.ctor, value |-> a.value, read |-> a.type]

\* the result of the default case of the four switches: g_critical, NULL
UnknownType(S) ==
  [S |-> S, ret |-> NULL, critical |-> TRUE, ctor |-> "none", value |-> NoVaArg,
   read |-> "none"]

\* switch (cstate->ctype) of gtk_accessible_value_collect_for_state and
\* gtk_accessible_value_collect_for_property
CollectSwitch(S, cstate, res) ==
  CASE cstate.ctype = "BOOLEAN" -> CollectCase(S, cstate, "int", res)
    [] cstate.ctype = "INT" -> CollectCase(S, cstate, "int", res)
    [] cstate.ctype = "TRISTATE" -> CollectCase(S, cstate, "int", res)
    [] cstate.ctype = "ENUM" -> CollectCase(S, cstate, "int", res)
    [] cstate.ctype = "NUMBER" -> CollectCase(S, cstate, "double", res)
    [] cstate.ctype = "STRING" -> CollectCase(S, cstate, "char*", res)
    [] cstate.ctype = "REF" -> CollectCase(S, cstate, "gpointer", res)
    [] OTHER -> UnknownType(S)

\* one case of the switch of the two GValue functions
CollectValueCase(S, cstate, value, g_type, res) ==
  LET value_ == g_value_get(value, g_type)
      r == CallCtor(S, cstate.ctor, value_, res)
  IN [S |-> r.S, ret |-> r.ret, critical |-> FALSE,
      ctor |-> cstate.ctor, value |-> value_, read |-> g_type]

\* as CollectValueSwitch, with the case of GTK_ACCESSIBLE_COLLECT_TRISTATE
\* left out
CollectValueSwitch_without_tristate(S, cstate, value, res) ==
  CASE cstate.ctype = "BOOLEAN" -> CollectValueCase(S, cstate, value, "gboolean", res)
    [] cstate.ctype = "INT" -> CollectValueCase(S, cstate, value, "gint", res)
    [] cstate.ctype = "ENUM" -> CollectValueCase(S, cstate, value, "GEnum", res)
    [] cstate.ctype = "NUMBER" -> CollectValueCase(S, cstate, value, "gdouble", res)
    [] cstate.ctype = "STRING" -> CollectValueCase(S, cstate, value, "gchararray", res)
    [] cstate.ctype = "REF" -> CollectValueCase(S, cstate, value, "GObject", res)
    [] OTHER -> UnknownType(S)

\* switch (cstate->ctype) of gtk_accessible_value_collect_for_state_value and
\* gtk_accessible_value_collect_for_property_value
CollectValueSwitch(S, cstate, value, res) ==
  CASE cstate.ctype = "BOOLEAN" -> CollectValueCase(S, cstate, value, "gboolean", res)
    [] cstate.ctype = "INT" -> CollectValueCase(S, cstate, value, "gint", res)
    [] cstate.ctype = "TRISTATE" -> CollectValueCase(S, cstate, value, "gint", res)
    [] cstate.ctype = "ENUM" -> CollectValueCase(S, cstate, value, "GEnum", res)
    [] cstate.ctype = "NUMBER" -> CollectValueCase(S, cstate, value, "gdouble", res)
    [] cstate.ctype = "STRING" -> CollectValueCase(S, cstate, value, "gchararray", res)
    [] cstate.ctype = "REF" -> CollectValueCase(S, cstate, value, "GObject", res)
    [] OTHER -> UnknownType(S)

\* what a state function gives when its g_assert fails
AssertFailed(S) ==
  [S |-> S, ret |-> NULL, critical |-> FALSE, ctor |-> "none", value |-> NoVaArg,
   read |-> "none", abort |-> TRUE, looked |-> "none"]

\* the result of a switch, of a call that passed the assertion and read the
\* row cstate
Collected(r, cstate) ==
  [S |-> r.S, ret |-> r.ret, critical |-> r.critical, ctor |-> r.ctor,
   value |-> r.value, read |-> r.read, abort |-> FALSE, looked |-> cstate.value]

\* [S, ret, critical, ctor, value, read, abort, looked]: besides what the
\* defaults give, the constructor that was called, the argument it was given
\* and the type the argument was read as
gtk_accessible_value_collect_for_state(S, state, res) ==
  IF state = "NONE" THEN AssertFailed(S)
  ELSE LET cstate == StatesEntry(state)
       IN Collected(CollectSwitch(S, cstate, res), cstate)

gtk_accessible_value_collect_for_state_value(S, state, value, res) ==
  IF state = "NONE" THEN AssertFailed(S)
  ELSE LET cstate == StatesEntry(state)
       IN Collected(CollectValueSwitch(S, cstate, value, res), cstate)

gtk_accessible_value_collect_for_property(S, property, res) ==
  LET cstate == PropsEntry(property)
  IN Collected(CollectSwitch(S, cstate, res), cstate)

gtk_accessible_value_collect_for_property_value(S, property, value, res) ==
  LET cstate == PropsEntry(property)
  IN Collected(CollectValueSwitch(S, cstate, value, res), cstate)

(***************************************************************************)
(* State machine                                                           *)
(***************************************************************************)
Cur ==
  [heap |-> heap, weak |-> weak_refs, strmem |-> strmem, faults |-> faults,
   va |-> va_args]

Commit(S) ==
  /\ heap' = S.heap
  /\ weak_refs' = S.weak
  /\ strmem' = S.strmem
  /\ faults' = S.faults
  /\ va_args' = S.va

\* the history of a construction: the kind and the argument it was given
Noted(S, res, value_class, arg) ==
  [S EXCEPT !.heap[res].class0 = value_class.type_name, !.heap[res].arg = arg]

\* the last call of a function that returns a value: its arguments (a, b,
\* attr), what it returned, whether a g_assert stopped the program in it
\* (abort), the table entry it read (looked), the constructor it called
\* (ctor) and the argument it decoded (arg, read as the type read)
NoCall ==
  [op |-> "none", a |-> NULL, b |-> NULL, attr |-> "none", ok |-> TRUE,
   val |-> FALSE, i |-> 0, d |-> Fin(0), sp |-> NullStr, s |-> <<>>,
   callee |-> "none", abort |-> FALSE, looked |-> "none", ctor |-> "none",
   read |-> "none", arg |-> NoVaArg]

Init ==
  /\ heap = [s \in Slots |-> ZeroValue]
  /\ weak_refs = {}
  /\ strmem = [a \in StrAddrs |-> IF a = CallerBuf THEN <<"a">> ELSE <<>>]
  /\ faults = {}
  /\ va_args = [items |-> <<>>, pos |-> 0, calls |-> 0]
  /\ objects = Objects
  /\ ret = NoCall

\* an address g_malloc0 can return
Free(res) == heap[res].st # "live"

\* a pointer a caller can hold: NULL or a value it has a reference on
Held(self) == self = NULL \/ Live(Cur, self)

IntNew(value) ==
  \E res \in Slots :
    /\ Free(res)
    /\ Commit(Noted(gtk_int_accessible_value_new(Cur, value, res), res,
                    GTK_INT_ACCESSIBLE_VALUE, [NoArg EXCEPT !.i = value]))
    /\ ret' = NoCall
    /\ UNCHANGED objects

NumberNew(value) ==
  \E res \in Slots :
    /\ Free(res)
    /\ Commit(Noted(gtk_number_accessible_value_new(Cur, value, res), res,
                    GTK_NUMBER_ACCESSIBLE_VALUE, [NoArg EXCEPT !.d = value]))
    /\ ret' = NoCall
    /\ UNCHANGED objects

\* gtk_string_accessible_value_new on the caller's buffer
StringNew ==
  \E res \in Slots :
    /\ Free(res)
    /\ Commit(Noted(gtk_string_accessible_value_new(Cur, CallerBuf, res), res,
                    GTK_STRING_ACCESSIBLE_VALUE,
                    [NoArg EXCEPT !.s = strmem[CallerBuf]]))
    /\ ret' = NoCall
    /\ UNCHANGED objects

\* the caller overwrites its buffer
CallerWrite(s) ==
  /\ strmem[CallerBuf] # s
  /\ strmem' = [strmem EXCEPT ![CallerBuf] = s]
  /\ ret' = NoCall
  /\ UNCHANGED <<heap, weak_refs, faults, va_args, objects>>

ReferenceNew(ref) ==
  \E res \in Slots :
    /\ Free(res)
    /\ ref \in objects
    /\ Commit(Noted(gtk_reference_accessible_value_new(Cur, ref, res).S, res,
                    GTK_REFERENCE_ACCESSIBLE_VALUE, [NoArg EXCEPT !.o = ref]))
    /\ ret' = NoCall
    /\ UNCHANGED objects

Ref(self) ==
  /\ Live(Cur, self)
  /\ heap[self].nref < MaxRefs
  /\ LET S1 == gtk_accessible_value_ref(Cur, self)
     IN Commit([S1 EXCEPT !.heap[self].nref = @ + 1])
  /\ ret' = NoCall
  /\ UNCHANGED objects

Unref(self) ==
  /\ Live(Cur, self)
  /\ LET S1 == gtk_accessible_value_unref(Cur, self)
     IN Commit(IF Live(S1, self)
               THEN [S1 EXCEPT !.heap[self].nunref = @ + 1]
               ELSE S1)
  /\ ret' = NoCall
  /\ UNCHANGED objects

\* The addresses are interchangeable: a decoding call is given the lowest
\* free one.
Lowest(res) == Free(res) /\ \A s \in Slots : Free(s) => res <= s

\* a caller allocates a value of the kind value_class describes
Alloc(value_class) ==
  \E res \in Slots :
    /\ Lowest(res)
    /\ LET r == gtk_accessible_value_alloc(Cur, value_class, res)
       IN /\ Commit(IF r.ret = NULL THEN r.S
                    ELSE Noted(r.S, res, value_class, NoArg))
          /\ ret' = [NoCall EXCEPT !.op = "alloc",
                                   !.attr = value_class.type_name,
                                   !.i = r.ret, !.ok = ~r.critical]
    /\ UNCHANGED objects

\* the last reference on a GtkAccessible object is dropped
DestroyObject(object) ==
  /\ object \in objects
  /\ objects' = objects \ {object}
  /\ Commit(WeakNotify(Cur, object))
  /\ ret' = NoCall

CallEqual(value_a, value_b) ==
  /\ Held(value_a) /\ Held(value_b)
  /\ LET r == gtk_accessible_value_equal(Cur, value_a, value_b)
         \* the kind function reads value_b as a value of value_a's kind
         punned == /\ r.callee # "none"
                   /\ heap[value_a].value_class # heap[value_b].value_class
     IN \E v \in (IF punned THEN BOOLEAN ELSE {r.val}) :
          ret' = [NoCall EXCEPT !.op = "equal", !.a = value_a, !.b = value_b,
                                !.val = v, !.callee = r.callee]
  /\ UNCHANGED <<heap, weak_refs, strmem, faults, va_args, objects>>

CallToString(self) ==
  /\ Held(self)
  /\ LET r == gtk_accessible_value_to_string(Cur, self)
     IN ret' = [NoCall EXCEPT !.op = "to_string", !.a = self,
                              !.sp = r.sp, !.s = r.s]
  /\ UNCHANGED <<heap, weak_refs, strmem, faults, va_args, objects>>

CallIntGet(value) ==
  /\ Held(value)
  /\ LET r == gtk_int_accessible_value_get(Cur, value)
     IN ret' = [NoCall EXCEPT !.op = "int_get", !.a = value,
                              !.ok = r.ok, !.i = r.val]
  /\ UNCHANGED <<heap, weak_refs, strmem, faults, va_args, objects>>

CallNumberGet(value) ==
  /\ Held(value)
  /\ LET r == gtk_number_accessible_value_get(Cur, value)
     IN ret' = [NoCall EXCEPT !.op = "number_get", !.a = value,
                              !.ok = r.ok, !.d = r.val]
  /\ UNCHANGED <<heap, weak_refs, strmem, faults, va_args, objects>>

CallStringGet(value) ==
  /\ Held(value)
  /\ LET r == gtk_string_accessible_value_get(Cur, value)
     IN ret' = [NoCall EXCEPT !.op = "string_get", !.a = value,
                              !.ok = r.ok, !.sp = r.val,
                              !.s = IF r.val = NullStr THEN <<>> ELSE strmem[r.val]]
  /\ UNCHANGED <<heap, weak_refs, strmem, faults, va_args, objects>>

CallReferenceGet(value) ==
  /\ Held(value)
  /\ LET r == gtk_reference_accessible_value_get(Cur, value)
     IN ret' = [NoCall EXCEPT !.op = "reference_get", !.a = value,
                              !.ok = r.ok, !.i = r.val]
  /\ UNCHANGED <<heap, weak_refs, strmem, faults, va_args, objects>>

\* the argument a default is constructed with, for the history
DefaultArg(ctype) ==
  CASE ctype = "INT" -> [cls |-> GTK_INT_ACCESSIBLE_VALUE, arg |-> NoArg]
    [] ctype = "NUMBER" -> [cls |-> GTK_NUMBER_ACCESSIBLE_VALUE, arg |-> NoArg]
    [] OTHER -> [cls |-> GTK_STRING_ACCESSIBLE_VALUE, arg |-> NoArg]

DefaultForProperty(property) ==
  \E res \in Slots :
    /\ Free(res)
    /\ LET r == gtk_accessible_value_get_default_for_property(Cur, property, res)
           h == DefaultArg(PropsEntry(property).ctype)
       IN IF r.looked = OutOfTable.value
          THEN \* undefined behaviour: anything is returned
               /\ \E junk \in {NULL, StaticAddr("boolean", "FALSE")}, ok \in BOOLEAN :
                    ret' = [NoCall EXCEPT !.op = "default_for_property",
                                          !.attr = property, !.i = junk,
                                          !.ok = ok, !.looked = r.looked]
               /\ faults' = faults \cup {"read_outside_table"}
               /\ UNCHANGED <<heap, weak_refs, strmem, va_args>>
          ELSE /\ Commit(IF r.ret = res THEN Noted(r.S, res, h.cls, h.arg) ELSE r.S)
               /\ ret' = [NoCall EXCEPT !.op = "default_for_property",
                                        !.attr = property, !.i = r.ret,
                                        !.ok = ~r.critical, !.looked = r.looked]
    /\ UNCHANGED objects

DefaultForState(state) ==
  /\ LET r == gtk_accessible_value_get_default_for_state(state)
     IN ret' = [NoCall EXCEPT !.op = "default_for_state", !.attr = state,
                              !.i = r.ret, !.ok = ~r.critical,
                              !.abort = r.abort, !.looked = r.looked]
  /\ UNCHANGED <<heap, weak_refs, strmem, faults, va_args, objects>>

\* the contents of the GValues a caller passes for the attributes: a
\* gboolean, a tristate, an orientation, an int, two doubles, its string
\* buffer, an object, NULL
VaArgs ==
  {TokenArg("TRUE"), TokenArg("GTK_ACCESSIBLE_STATE_UNDEFINED"),
   TokenArg("GTK_ORIENTATION_VERTICAL"), IntArg(-1), DoubleArg(Fin(10000)),
   DoubleArg(PInf), StringArg(CallerBuf), PointerArg(1), PointerArg(NULL)}

\* the arguments of the variadic calls: one of each C type, and an enumerator
VarArgs ==
  {TokenArg("TRUE"), IntArg(-1), DoubleArg(PInf), StringArg(CallerBuf),
   PointerArg(1)}

VaLists == UNION {[1..n -> VarArgs] : n \in 1..MaxVarArgs}

\* the caller holds no value: it has released what it was returned
Idle == \A s \in Slots : Free(s)

\* the argument is one a caller passes for the attribute of the row: of the
\* C type of the row's kind and, for a static kind, a value of that kind
Matches(cstate, item) ==
  /\ item.t = VaType(cstate.ctype)
  /\ IF cstate.ctor \in DOMAIN CtorKind
     THEN \E n \in DOMAIN StaticValues :
            StaticValues[n] = [kind |-> CtorKind[cstate.ctor], token |-> item.tok]
     ELSE item.tok = "none"

\* the program runs: no g_assert has stopped it and its memory is sound
Running == ~ret.abort /\ faults = {}

\* no variadic call is in progress
NoVaList == [items |-> <<>>, pos |-> 0, calls |-> 0]

\* a variadic function is entered with its arguments (va_start)
VaStart(items) ==
  /\ va_args = NoVaList
  /\ va_args' = [items |-> items, pos |-> 0, calls |-> 0]
  /\ ret' = NoCall
  /\ UNCHANGED <<heap, weak_refs, strmem, faults, objects>>

\* the variadic function has read its arguments and returns (va_end)
VaEnd ==
  /\ va_args # NoVaList
  /\ va_args.pos = Len(va_args.items)
  /\ va_args' = NoVaList
  /\ ret' = NoCall
  /\ UNCHANGED <<heap, weak_refs, strmem, faults, objects>>

\* the history of a value a decoding function constructed at res
NotedCollected(S, res, value) ==
  Noted(S, res, Class(S.heap[res].value_class),
        [i |-> value.i, d |-> value.d,
         s |-> IF value.sp = NullStr THEN <<>> ELSE S.strmem[value.sp],
         o |-> value.o])

\* the record of a decoding call that returned r
CollectCall(op, attr, r) ==
  [NoCall EXCEPT !.op = op, !.attr = attr, !.i = r.ret, !.ok = ~r.critical,
                 !.abort = r.abort, !.looked = r.looked, !.ctor = r.ctor,
                 !.read = r.read, !.arg = r.value]

\* a decoding call returns r, having been given res to allocate at.  A call
\* that read outside its table has undefined behaviour: it returns anything.
Return(op, attr, r, res, va_call) ==
  IF r.looked = OutOfTable.value
  THEN /\ \E junk \in {NULL, StaticAddr("boolean", "FALSE")}, ok \in BOOLEAN :
            ret' = [NoCall EXCEPT !.op = op, !.attr = attr, !.i = junk,
                                  !.ok = ok, !.looked = r.looked]
       /\ faults' = faults \cup {"read_outside_table"}
       /\ UNCHANGED <<heap, weak_refs, strmem, va_args>>
  ELSE /\ LET S1 == IF r.ret = res THEN NotedCollected(r.S, res, r.value) ELSE r.S
          IN Commit(IF va_call /\ ~r.abort
                    THEN [S1 EXCEPT !.va.calls = @ + 1]
                    ELSE S1)
       /\ ret' = CollectCall(op, attr, r)

CollectForState(state) ==
  \E res \in Slots :
    /\ Lowest(res)
    /\ state \in States =>
         /\ va_args.pos < Len(va_args.items)
         /\ Matches(StatesEntry(state), va_args.items[va_args.pos + 1])
    /\ Return("collect_for_state", state,
              gtk_accessible_value_collect_for_state(Cur, state, res), res, TRUE)
    /\ UNCHANGED objects

CollectForProperty(property) ==
  \E res \in Slots :
    /\ Lowest(res)
    /\ va_args.pos < Len(va_args.items)
    /\ property \in Properties =>
         Matches(PropsEntry(property), va_args.items[va_args.pos + 1])
    /\ Return("collect_for_property", property,
              gtk_accessible_value_collect_for_property(Cur, property, res),
              res, TRUE)
    /\ UNCHANGED objects

\* the GValue a caller fills for the attribute of the row
Boxed(cstate, item) == GValue(GValueType(cstate.ctype), item)

CollectForStateValue(state, item) ==
  \E res \in Slots :
    /\ Lowest(res)
    /\ state \in States => Matches(StatesEntry(state), item)
    /\ Return("collect_for_state_value", state,
              gtk_accessible_value_collect_for_state_value(
                Cur, state,
                IF state \in States THEN Boxed(StatesEntry(state), item)
                ELSE GValue("gint", item), res),
              res, FALSE)
    /\ UNCHANGED objects

CollectForPropertyValue(property, item) ==
  \E res \in Slots :
    /\ Lowest(res)
    /\ property \in Properties => Matches(PropsEntry(property), item)
    /\ Return("collect_for_property_value", property,
              gtk_accessible_value_collect_for_property_value(
                Cur, property,
                IF property \in Properties THEN Boxed(PropsEntry(property), item)
                ELSE GValue("gint", item), res),
              res, FALSE)
    /\ UNCHANGED objects

\* the life of the values: construction, ref, unref, and the death of the
\* objects that reference values point to
Next ==
  \/ IntNew(0)
  \/ NumberNew(Fin(0))
  \/ StringNew
  \/ \E o \in Objects : ReferenceNew(o)
  \/ \E v \in Slots : Ref(v)
  \/ \E v \in Slots : Unref(v)
  \/ \E o \in Objects : DestroyObject(o)

Spec == Init /\ [][Next]_vars

\* the functions that return a value, called on values of every kind; the
\* values are the arguments of one call
Room == Cardinality({s \in Slots : heap[s].st = "live"}) < MaxArgs

NextCalls ==
  \/ Room /\ \E i \in Ints : IntNew(i)
  \/ Room /\ \E d \in Doubles : NumberNew(d)
  \/ \E s \in Strings : CallerWrite(s)
  \/ Room /\ StringNew
  \/ Room /\ \E o \in Objects : ReferenceNew(o)
  \/ \E a, b \in Slots \cup {NULL} : CallEqual(a, b)
  \/ \E v \in Slots \cup {NULL} : CallToString(v)
  \/ \E v \in Slots \cup {NULL} : CallStringGet(v)

SpecCalls == Init /\ [][NextCalls]_vars

\* the defaults of the attribute tables; the caller owns what it gets and
\* releases it
NextTables ==
  \/ Running /\ \E p \in Properties \cup {"NONE"} : DefaultForProperty(p)
  \/ Running /\ \E s \in States \cup {"NONE"} : DefaultForState(s)
  \/ Running /\ \E v \in Slots : Unref(v)

SpecTables == Init /\ [][NextTables]_vars

\* the decoding of the arguments of a variadic call, and of GValues outside
\* such a call; the caller owns what it gets and releases it before the next
\* call
NextCollect ==
  \/ Running /\ Idle /\ \E items \in VaLists : VaStart(items)
  \/ Running /\ Idle /\ VaEnd
  \/ Running /\ Idle /\ \E s \in States \cup {"NONE"} : CollectForState(s)
  \/ Running /\ Idle /\ \E p \in Properties \cup {"NONE"} : CollectForProperty(p)
  \/ Running /\ Idle /\ va_args = NoVaList
       /\ \E s \in States \cup {"NONE"}, item \in VaArgs :
            CollectForStateValue(s, item)
  \/ Running /\ Idle /\ va_args = NoVaList
       /\ \E p \in Properties \cup {"NONE"}, item \in VaArgs :
            CollectForPropertyValue(p, item)
  \/ Running /\ \E v \in Slots : Unref(v)

SpecCollect == Init /\ [][NextCollect]_vars

\* the typed accessors, called on NULL and on values of every kind, before
\* and after the death of the objects that reference values point to
NextGet ==
  \/ Room /\ \E i \in Ints : IntNew(i)
  \/ Room /\ \E d \in {Fin(10005), NaN} : NumberNew(d)
  \/ Room /\ StringNew
  \/ Room /\ \E o \in Objects : ReferenceNew(o)
  \/ \E o \in Objects : DestroyObject(o)
  \/ \E v \in Slots \cup {NULL} : CallIntGet(v)
  \/ \E v \in Slots \cup {NULL} : CallNumberGet(v)
  \/ \E v \in Slots \cup {NULL} : CallStringGet(v)
  \/ \E v \in Slots \cup {NULL} : CallReferenceGet(v)

SpecGet == Init /\ [][NextGet]_vars

(***************************************************************************)
(* Properties                                                              *)
(***************************************************************************)
IsLive(v) == heap[v].st = "live"
IsKind(v, value_class) == heap[v].value_class = value_class.type_name
HasFinalize(type_name) == Class(type_name).finalize # "NULL"
\* the finalize hook and the release of the storage, in the order they ran
Hooks(events) == SelectSeq(events, LAMBDA e : e \in {"finalize", "free"})
NullToken == <<"<", "n", "u", "l", "l", ">">>

\* C1: a live value has not been finalized; an unref of a value whose count
\* is above 1 leaves it live and not finalized; a value is freed only by the
\* unref that finds the count at 1, and that unref runs the finalize hook of
\* the kind (if it has one) exactly once and releases the storage after it.
C1_FinalizeOnceAtLastUnref ==
  [][\A v \in Slots :
       IsLive(v) =>
         /\ heap[v].nfinalize = 0
         /\ Hooks(heap[v].events) = <<>>
         /\ heap[v].ref_count >= 1
         /\ (heap'[v].st = "live" /\ heap'[v].nunref = heap[v].nunref + 1) =>
              /\ heap[v].ref_count > 1
              /\ heap'[v].nfinalize = 0
              /\ Hooks(heap'[v].events) = <<>>
         /\ heap'[v].st = "freed" =>
              /\ heap[v].ref_count = 1
              /\ heap'[v].nfinalize = IF HasFinalize(heap[v].class0) THEN 1 ELSE 0
              /\ Hooks(heap'[v].events) =
                   IF HasFinalize(heap[v].class0)
                   THEN <<"finalize", "free">>
                   ELSE <<"free">>]_vars

\* one value was finalized and freed by its last unref while another, after
\* a ref and the matching unref, is live and not finalized
C1_Witness ==
  \E v, w \in Slots :
    /\ heap[v].st = "freed"
    /\ Hooks(heap[v].events) = <<"finalize", "free">>
    /\ IsLive(w)
    /\ heap[w].nref = 1 /\ heap[w].nunref = 1
    /\ HasFinalize(heap[w].class0)

\* C2: a value that has not been freed has ref_count >= 1, its ref_count is
\* 1 + the ref calls - the unref calls made on it since its allocation, and
\* its kind is the kind it was allocated with.
C2_RefCountAndKind ==
  \A v \in Slots :
    IsLive(v) =>
      /\ heap[v].ref_count >= 1
      /\ heap[v].ref_count = 1 + heap[v].nref - heap[v].nunref
      /\ heap[v].value_class = heap[v].class0

C2_Witness ==
  \E v, w \in Slots :
    /\ IsLive(v) /\ heap[v].nref = 1 /\ heap[v].nunref = 1
    /\ IsLive(w) /\ heap[w].nref = 1 /\ heap[w].nunref = 0 /\ heap[w].ref_count = 2
    /\ IsKind(w, GTK_REFERENCE_ACCESSIBLE_VALUE)
    /\ heap[w].arg.o \notin objects

\* C3: a live reference value never links to a destroyed object; once the
\* object it was created for is destroyed its link is NULL, the accessor
\* returns NULL, print appends "<null>", it equals exactly the reference
\* values whose link is cleared too, and its count and kind are as before.
C3_ClearedLink ==
  \A v \in Slots :
    (IsLive(v) /\ IsKind(v, GTK_REFERENCE_ACCESSIBLE_VALUE)) =>
      /\ heap[v].ref # NULL => heap[v].ref \in objects
      /\ heap[v].arg.o \notin objects =>
           /\ heap[v].ref = NULL
           /\ gtk_reference_accessible_value_get(Cur, v) = [ok |-> TRUE, val |-> NULL]
           /\ gtk_accessible_value_print(Cur, v, <<>>) = NullToken
           /\ gtk_accessible_value_to_string(Cur, v).s = NullToken
           /\ \A w \in Slots :
                (IsLive(w) /\ IsKind(w, GTK_REFERENCE_ACCESSIBLE_VALUE)) =>
                  gtk_accessible_value_equal(Cur, v, w).val
                    = (heap[w].arg.o \notin objects)
           /\ heap[v].ref_count = 1 + heap[v].nref - heap[v].nunref
           /\ heap[v].value_class = heap[v].class0

\* a cleared reference value next to one that is still linked
C3_Witness ==
  \E v, w \in Slots :
    /\ IsLive(v) /\ IsKind(v, GTK_REFERENCE_ACCESSIBLE_VALUE)
    /\ heap[v].arg.o \notin objects /\ heap[v].ref_count = 2
    /\ IsLive(w) /\ IsKind(w, GTK_REFERENCE_ACCESSIBLE_VALUE)
    /\ heap[w].ref \in objects

\* C4: the finalize of a reference value removes the value's registration
\* from its object when the link is set (and the object is then alive), and
\* touches no registration when the link is NULL; every registration names
\* a live object and a live reference value linked to it, so no notify runs
\* on a freed value and no deregistration reaches a destroyed object.
C4_Deregistration ==
  [][/\ \A v \in Slots :
          (IsLive(v) /\ IsKind(v, GTK_REFERENCE_ACCESSIBLE_VALUE)
             /\ heap'[v].st = "freed") =>
            IF heap[v].ref # NULL
            THEN /\ heap[v].ref \in objects
                 /\ <<heap[v].ref, v>> \in weak_refs
                 /\ weak_refs' = weak_refs \ {<<heap[v].ref, v>>}
                 /\ "weak_unref" \in {heap'[v].events[i] : i \in DOMAIN heap'[v].events}
            ELSE /\ weak_refs' = weak_refs
                 /\ "weak_unref" \notin {heap'[v].events[i] : i \in DOMAIN heap'[v].events}
     /\ faults' = {}
     /\ \A w \in weak_refs' :
          /\ w[1] \in objects'
          /\ heap'[w[2]].st = "live"
          /\ heap'[w[2]].value_class = GTK_REFERENCE_ACCESSIBLE_VALUE.type_name
          /\ heap'[w[2]].ref = w[1]]_vars

\* one reference value was finalized while linked, another after its object
\* had died
C4_Witness ==
  \E v, w \in Slots :
    /\ heap[v].st = "freed" /\ heap[v].events = <<"finalize", "weak_unref", "free">>
    /\ heap[w].st = "freed" /\ heap[w].class0 = GTK_REFERENCE_ACCESSIBLE_VALUE.type_name
    /\ heap[w].events = <<"finalize", "free">>

\* the two arguments of the last gtk_accessible_value_equal call are distinct
\* values of one kind
EqualCallOn(value_class) ==
  /\ ret.op = "equal"
  /\ ret.a # NULL /\ ret.b # NULL /\ ret.a # ret.b
  /\ IsKind(ret.a, value_class) /\ IsKind(ret.b, value_class)

\* C5: gtk_accessible_value_equal returns TRUE for the same reference (both
\* NULL too) and FALSE when exactly one argument is NULL, in both cases
\* without calling a kind function; otherwise it calls the equal function of
\* the first argument's kind and returns its result.
C5_EqualNullSafe ==
  ret.op = "equal" =>
    /\ ret.a = ret.b => (ret.val = TRUE /\ ret.callee = "none")
    /\ (ret.a # ret.b /\ (ret.a = NULL \/ ret.b = NULL)) =>
         (ret.val = FALSE /\ ret.callee = "none")
    /\ (ret.a # ret.b /\ ret.a # NULL /\ ret.b # NULL) =>
         /\ ret.callee = Class(heap[ret.a].value_class).equal
         /\ heap[ret.a].value_class = heap[ret.b].value_class =>
              ret.val = CallEqualFn(Cur, Class(heap[ret.a].value_class).equal,
                                    ret.a, ret.b)

\* a value holding NaN compared with itself: TRUE, by the shortcut alone
C5_Witness ==
  /\ ret.op = "equal"
  /\ ret.a = ret.b /\ ret.a # NULL
  /\ IsKind(ret.a, GTK_NUMBER_ACCESSIBLE_VALUE)
  /\ heap[ret.a].arg.d = NaN
  /\ ret.val = TRUE

\* C6: two separately constructed values of one kind are equal when they
\* were constructed from the same payload, and unequal when the payloads
\* differ under the kind's rule (other integer; other length or content;
\* other object; at least 0.001 apart).
C6_EqualPayloadsEqual ==
  \A value_class \in ValueClasses :
    EqualCallOn(value_class) =>
      LET x == heap[ret.a].arg
          y == heap[ret.b].arg
      IN /\ x = y => ret.val = TRUE
         /\ (x.i # y.i \/ x.s # y.s \/ x.o # y.o) => ret.val = FALSE
         /\ (x.d.k = "fin" /\ y.d.k = "fin"
               /\ (x.d.v - y.d.v >= Tolerance \/ y.d.v - x.d.v >= Tolerance)) =>
              ret.val = FALSE

\* C7: two number values are equal exactly when the absolute value of their
\* difference is below 0.001, strictly: 1.0 and 1.0005 are equal, 1.0 and
\* 1.002 are not, and neither are two numbers exactly 0.001 apart.  (No
\* difference with an infinity or a NaN in it is below 0.001.)
C7_NumberTolerance ==
  EqualCallOn(GTK_NUMBER_ACCESSIBLE_VALUE) =>
    LET x == heap[ret.a].arg.d
        y == heap[ret.b].arg.d
    IN ret.val = (/\ x.k = "fin" /\ y.k = "fin"
                  /\ x.v - y.v < Tolerance
                  /\ y.v - x.v < Tolerance)

\* 0.0 against 0.001: unequal
C7_Witness ==
  /\ EqualCallOn(GTK_NUMBER_ACCESSIBLE_VALUE)
  /\ heap[ret.a].arg.d = Fin(0)
  /\ heap[ret.b].arg.d = Fin(Tolerance)
  /\ ret.val = FALSE

\* C8: on values of one kind gtk_accessible_value_equal (a, a) is TRUE and
\* gtk_accessible_value_equal (a, b) is gtk_accessible_value_equal (b, a).
C8_EqualReflexiveSymmetric ==
  (/\ ret.op = "equal"
   /\ ret.a # NULL /\ ret.b # NULL
   /\ heap[ret.a].value_class = heap[ret.b].value_class) =>
    /\ ret.a = ret.b => ret.val = TRUE
    /\ gtk_accessible_value_equal(Cur, ret.a, ret.a).val = TRUE
    /\ ret.val = gtk_accessible_value_equal(Cur, ret.b, ret.a).val

\* 1.0 against 1.002, the smaller first
C8_Witness ==
  /\ EqualCallOn(GTK_NUMBER_ACCESSIBLE_VALUE)
  /\ heap[ret.a].arg.d = Fin(10000)
  /\ heap[ret.b].arg.d = Fin(10020)
  /\ ret.val = FALSE

\* C9: gtk_accessible_value_to_string of a string value returns, in storage
\* of its own, the characters the value was constructed from, and
\* gtk_string_accessible_value_get points to the same characters, whatever
\* the caller has written to its buffer since.
C9_StringRoundTrip ==
  /\ (/\ ret.op = "to_string"
      /\ ret.a # NULL
      /\ IsKind(ret.a, GTK_STRING_ACCESSIBLE_VALUE)) =>
       /\ ret.s = heap[ret.a].arg.s
       /\ ret.sp \notin {NullStr, CallerBuf, heap[ret.a].string_value}
  /\ (/\ ret.op = "string_get"
      /\ ret.a # NULL
      /\ IsKind(ret.a, GTK_STRING_ACCESSIBLE_VALUE)) =>
       /\ ret.ok
       /\ ret.sp # CallerBuf
       /\ ret.s = heap[ret.a].arg.s
  /\ \A v \in Slots :
       (IsLive(v) /\ IsKind(v, GTK_STRING_ACCESSIBLE_VALUE)) =>
         /\ gtk_accessible_value_to_string(Cur, v).s = heap[v].arg.s
         /\ heap[v].length = Len(heap[v].arg.s)

\* "ab" read back after the caller's buffer has changed
C9_Witness ==
  /\ ret.op = "to_string"
  /\ ret.a # NULL
  /\ IsKind(ret.a, GTK_STRING_ACCESSIBLE_VALUE)
  /\ heap[ret.a].arg.s = <<"a", "b">>
  /\ strmem[CallerBuf] = <<"b">>
  /\ ret.s = <<"a", "b">>

\* C10: the default of a property whose table kind is string is a string
\* value equal to a new string value of "", and the default of a property
\* whose table kind is integer is an integer value holding 0.
C10_StringAndIntDefaults ==
  ret.op = "default_for_property" =>
    LET e == PropsEntry(ret.attr)
    IN /\ e.ctype = "STRING" =>
            /\ ret.i \in Slots
            /\ IsLive(ret.i)
            /\ IsKind(ret.i, GTK_STRING_ACCESSIBLE_VALUE)
            /\ LET other == CHOOSE s \in Slots : s # ret.i
                   S1 == gtk_string_accessible_value_new(Cur, EmptyLiteral, other)
               IN gtk_accessible_value_equal(S1, ret.i, other).val = TRUE
       /\ e.ctype = "INT" =>
            /\ ret.i \in Slots
            /\ IsLive(ret.i)
            /\ gtk_int_accessible_value_get(Cur, ret.i) = [ok |-> TRUE, val |-> 0]

\* C11: the default of a property whose table kind is reference is NULL,
\* returned without the unknown-value diagnostic, and the call allocates no
\* value and registers no weak notify (memory is as it was before the call).
C11_ReferenceDefaultsAbsent ==
  [][(/\ ret'.op = "default_for_property"
      /\ PropsEntry(ret'.attr).ctype = "REF") =>
       /\ ret'.i = NULL
       /\ ret'.ok
       /\ heap' = heap
       /\ weak_refs' = weak_refs
       /\ strmem' = strmem
       /\ faults' = faults]_vars

\* the default of GTK_ACCESSIBLE_PROPERTY_OWNS was asked for
C11_Witness ==
  /\ ret.op = "default_for_property"
  /\ ret.attr = "OWNS"
  /\ ret.i = NULL
  /\ ret.ok
  /\ weak_refs = {}

\* C12: the default of every valid state is a value, not NULL: the boolean
\* FALSE for BUSY, DISABLED and HIDDEN, and the "undefined" value of the
\* state's own kind for CHECKED, EXPANDED, GRABBED, PRESSED and SELECTED;
\* the unknown-value branch (g_critical and NULL) is taken for no valid state.
C12_StateDefaults ==
  (ret.op = "default_for_state" /\ ret.attr \in States) =>
    /\ ret.i # NULL
    /\ ret.ok
    /\ ~ret.abort
    /\ ret.attr \in {"BUSY", "DISABLED", "HIDDEN"} =>
         ret.i = StaticAddr("boolean", "FALSE")
    /\ ret.attr = "CHECKED" =>
         ret.i = StaticAddr("checked", "GTK_ACCESSIBLE_CHECKED_UNDEFINED")
    /\ ret.attr = "EXPANDED" =>
         ret.i = StaticAddr("expanded", "GTK_ACCESSIBLE_STATE_UNDEFINED")
    /\ ret.attr = "GRABBED" =>
         ret.i = StaticAddr("grabbed", "GTK_ACCESSIBLE_STATE_UNDEFINED")
    /\ ret.attr = "PRESSED" =>
         ret.i = StaticAddr("pressed", "GTK_ACCESSIBLE_PRESSED_UNDEFINED")
    /\ ret.attr = "SELECTED" =>
         ret.i = StaticAddr("selected", "GTK_ACCESSIBLE_STATE_UNDEFINED")

\* the default of GTK_ACCESSIBLE_STATE_HIDDEN was asked for
C12_Witness ==
  /\ ret.op = "default_for_state"
  /\ ret.attr = "HIDDEN"
  /\ ret.i = StaticAddr("boolean", "FALSE")
  /\ ret.ok

\* the functions that read an attribute table
TableOps ==
  {"default_for_state", "default_for_property", "collect_for_state",
   "collect_for_property", "collect_for_state_value",
   "collect_for_property_value"}

C14_NoneNeverLookedUp ==
  (ret.op \in TableOps /\ ret.attr = "NONE") =>
    /\ ret.abort
    /\ ret.looked = "none"

\* the row a function reads for a valid attribute
RowOf(attr) == IF attr \in States THEN StatesEntry(attr) ELSE PropsEntry(attr)

\* in the memory (h, sm) the value at addr is what the constructor of the row
\* cstate makes of the argument item
BuiltFrom(h, sm, addr, cstate, item) ==
  CASE cstate.ctor = "gtk_int_accessible_value_new" ->
         /\ addr \in Slots /\ h[addr].st = "live"
         /\ h[addr].value_class = GTK_INT_ACCESSIBLE_VALUE.type_name
         /\ h[addr].int_value = item.i
    [] cstate.ctor = "gtk_number_accessible_value_new" ->
         /\ addr \in Slots /\ h[addr].st = "live"
         /\ h[addr].value_class = GTK_NUMBER_ACCESSIBLE_VALUE.type_name
         /\ h[addr].number_value = item.d
    [] cstate.ctor = "gtk_string_accessible_value_new" ->
         /\ addr \in Slots /\ h[addr].st = "live"
         /\ h[addr].value_class = GTK_STRING_ACCESSIBLE_VALUE.type_name
         /\ sm[h[addr].string_value] = sm[item.sp]
    [] cstate.ctor = "gtk_reference_accessible_value_new" ->
         IF item.o = NULL THEN addr = NULL
         ELSE /\ addr \in Slots /\ h[addr].st = "live"
              /\ h[addr].value_class = GTK_REFERENCE_ACCESSIBLE_VALUE.type_name
              /\ h[addr].ref = item.o
    [] OTHER -> addr = StaticAddr(CtorKind[cstate.ctor], item.tok)

\* C15: a call of gtk_accessible_value_collect_for_state or
\* gtk_accessible_value_collect_for_property with a valid attribute reads
\* exactly one argument of the va_list, the next one, as the C type of the
\* attribute's kind, and returns the value built from it; so after k calls
\* the first k arguments have been read, in order.
C15_OneArgumentPerCall ==
  [][/\ (/\ ret'.op \in {"collect_for_state", "collect_for_property"}
         /\ ret'.attr \in States \cup Properties) =>
          /\ va_args'.items = va_args.items
          /\ va_args'.pos = va_args.pos + 1
          /\ ret'.read = VaType(RowOf(ret'.attr).ctype)
          /\ ret'.read = va_args.items[va_args.pos + 1].t
          /\ ret'.arg = va_args.items[va_args.pos + 1]
          /\ BuiltFrom(heap', strmem', ret'.i, RowOf(ret'.attr),
                       va_args.items[va_args.pos + 1])
     /\ va_args'.pos = va_args'.calls
     /\ va_args'.pos <= Len(va_args'.items)]_vars

\* the second of two different arguments has been decoded
C15_Witness ==
  /\ ret.op = "collect_for_property"
  /\ ret.attr \in Properties
  /\ va_args.pos = 2
  /\ va_args.calls = 2
  /\ va_args.items[1] # va_args.items[2]
  /\ ret.arg = va_args.items[2]

\* the functions that decode an argument
CollectOps ==
  {"collect_for_state", "collect_for_property", "collect_for_state_value",
   "collect_for_property_value"}

\* what the va_list function of attr returns for the single argument item,
\* allocating at res
ByVaList(attr, item, res) ==
  LET S0 == [Cur EXCEPT !.va = [items |-> <<item>>, pos |-> 0, calls |-> 0]]
  IN IF attr \in States
     THEN gtk_accessible_value_collect_for_state(S0, attr, res)
     ELSE gtk_accessible_value_collect_for_property(S0, attr, res)

\* what the GValue function of attr returns for the GValue holding item,
\* allocating at res
ByGValue(attr, item, res) ==
  IF attr \in States
  THEN gtk_accessible_value_collect_for_state_value(
         Cur, attr, Boxed(RowOf(attr), item), res)
  ELSE gtk_accessible_value_collect_for_property_value(
         Cur, attr, Boxed(RowOf(attr), item), res)

\* C16: for a valid attribute and an input of its kind, the value decoded
\* from a va_list and the value decoded from a GValue holding the same input
\* are equal for gtk_accessible_value_equal (both NULL, or of one kind with
\* equal payloads).
C16_DecodePathsAgree ==
  (ret.op \in CollectOps /\ ret.attr \in States \cup Properties) =>
    LET other == CHOOSE s \in Slots : Free(s)
        r == IF ret.op \in {"collect_for_state", "collect_for_property"}
             THEN ByGValue(ret.attr, ret.arg, other)
             ELSE ByVaList(ret.attr, ret.arg, other)
    IN /\ (ret.i = NULL) = (r.ret = NULL)
       /\ gtk_accessible_value_equal(r.S, ret.i, r.ret).val = TRUE
       /\ gtk_accessible_value_equal(r.S, r.ret, ret.i).val = TRUE

\* the rows of both tables
Rows ==
  {collect_states[n] : n \in DOMAIN collect_states}
    \cup {collect_props[n] : n \in DOMAIN collect_props}

\* C17: every row of the two tables declares one of the seven collected
\* types and a constructor whose parameter has the C type of that kind; a
\* decoding function called with a valid attribute calls the constructor of
\* the attribute's row and never takes the unknown-type branch (g_critical).
C17_RegisteredConstructor ==
  /\ \A row \in Rows :
       /\ row.ctype \in CollectTypes
       /\ CtorArgType(row.ctor) = VaType(row.ctype)
  /\ (ret.op \in CollectOps /\ ret.attr \in States \cup Properties) =>
       /\ ret.ctor = RowOf(ret.attr).ctor
       /\ ret.ok

\* the tristate GTK_ACCESSIBLE_STATE_EXPANDED was decoded from a GValue
C17_Witness ==
  /\ ret.op = "collect_for_state_value"
  /\ ret.attr = "EXPANDED"
  /\ ret.ctor = "gtk_expanded_accessible_value_new"
  /\ ret.i = StaticAddr("expanded", "GTK_ACCESSIBLE_STATE_UNDEFINED")
  /\ ret.ok

\* the accessors and the kind each belongs to
GetOps ==
  [int_get |-> GTK_INT_ACCESSIBLE_VALUE,
   number_get |-> GTK_NUMBER_ACCESSIBLE_VALUE,
   string_get |-> GTK_STRING_ACCESSIBLE_VALUE,
   reference_get |-> GTK_REFERENCE_ACCESSIBLE_VALUE]

\* the call r of an accessor, made in the memory h with the objects objs
\* alive, returned what C18 says
GetReturned(r, h, objs) ==
  IF r.a = NULL \/ h[r.a].value_class # GetOps[r.op].type_name
  THEN /\ ~r.ok
       /\ r.i = 0
       /\ r.d = Fin(0)
       /\ r.sp = NullStr
  ELSE /\ r.ok
       /\ r.op = "int_get" => r.i = h[r.a].arg.i
       /\ r.op = "number_get" => r.d = h[r.a].arg.d
       /\ r.op = "string_get" =>
            (r.sp = h[r.a].string_value /\ r.s = h[r.a].arg.s)
       /\ r.op = "reference_get" =>
            r.i = (IF h[r.a].arg.o \in objs THEN h[r.a].arg.o ELSE NULL)

\* C18: an accessor given NULL or a value of another kind fails its
\* precondition and returns 0 (0.0, NULL); given a value of its own kind it
\* returns the payload the value was constructed with, or NULL for a
\* reference value whose object has died; in both cases it changes nothing.
C18_TypedAccessors ==
  [][ret'.op \in DOMAIN GetOps =>
       /\ GetReturned(ret', heap', objects')
       /\ UNCHANGED <<heap, weak_refs, strmem, faults, objects>>]_vars

\* gtk_int_accessible_value_get was refused a string value
C18_Witness ==
  /\ ret.op = "int_get"
  /\ ret.a # NULL
  /\ IsKind(ret.a, GTK_STRING_ACCESSIBLE_VALUE)
  /\ heap[ret.a].arg.s = <<"a">>
  /\ ~ret.ok
  /\ ret.i = 0

\* gtk_accessible_value_alloc called with every kind of descriptor, and the
\* reference counting of what it returned
NextAlloc ==
  \/ \E c \in AllocClasses : Alloc(c)
  \/ \E v \in Slots : Ref(v)
  \/ \E v \in Slots : Unref(v)

SpecAlloc == Init /\ [][NextAlloc]_vars

\* C19: gtk_accessible_value_alloc, given a descriptor that is not NULL and
\* whose instance_size is at least sizeof (GtkAccessibleValue), returns a
\* value that was not live before, with every payload field zero, ref_count 1
\* and value_class the descriptor, whose init hook has run exactly once if
\* the descriptor has one and not at all otherwise; given NULL or a smaller
\* instance_size it returns NULL after a failed precondition and changes
\* nothing: no value is allocated and no hook runs.
C19_AllocContract ==
  [][ret'.op = "alloc" =>
       LET c == Class(ret'.attr)
           res == ret'.i
       IN IF c # NULL_CLASS /\ c.instance_size >= sizeof_GtkAccessibleValue
          THEN /\ ret'.ok
               /\ res \in Slots
               /\ heap[res].st # "live"
               /\ heap'[res].st = "live"
               /\ heap'[res].ref_count = 1
               /\ heap'[res].value_class = c.type_name
               /\ heap'[res].int_value = 0
               /\ heap'[res].number_value = Fin(0)
               /\ heap'[res].string_value = NullStr
               /\ heap'[res].length = 0
               /\ heap'[res].ref = NULL
               /\ heap'[res].events =
                    (IF c.init # "NULL" THEN <<"init">> ELSE <<>>)
               /\ \A s \in Slots \ {res} : heap'[s] = heap[s]
               /\ UNCHANGED <<weak_refs, strmem, faults>>
          ELSE /\ ~ret'.ok
               /\ res = NULL
               /\ UNCHANGED <<heap, weak_refs, strmem, faults>>]_vars

\* a descriptor whose instance_size is smaller than the header was refused
\* while another value was live
C19_Witness ==
  /\ ret.op = "alloc"
  /\ ret.attr = CLASS_TOO_SMALL.type_name
  /\ ret.i = NULL
  /\ \E s \in Slots : heap[s].st = "live"

\* the live reference values linked to object
Linked(object) ==
  {v \in Slots : /\ IsLive(v)
                 /\ IsKind(v, GTK_REFERENCE_ACCESSIBLE_VALUE)
                 /\ heap[v].ref = object}

\* C20: the live reference values linked to one object each have their own
\* weak registration; when one of two or more is finalized, only its own
\* registration is removed and the others stay as they were, linked and
\* registered; when the object is destroyed, every value linked to it stays
\* live with its link cleared and no registration left, and any two of them
\* compare equal.
C20_SharedObject ==
  [][\A o \in Objects :
       /\ \A v \in Linked(o) : <<o, v>> \in weak_refs
       /\ \A v \in Linked(o) :
            (Cardinality(Linked(o)) >= 2 /\ heap'[v].st = "freed") =>
              /\ weak_refs' = weak_refs \ {<<o, v>>}
              /\ \A w \in Linked(o) \ {v} :
                   /\ heap'[w] = heap[w]
                   /\ <<o, w>> \in weak_refs'
       /\ (o \in objects /\ o \notin objects') =>
            /\ \A v \in Linked(o) :
                 /\ heap'[v].st = "live"
                 /\ heap'[v].ref = NULL
                 /\ heap'[v].ref_count = heap[v].ref_count
            /\ \A w \in weak_refs' : w[1] # o
            /\ \A v, w \in Linked(o) :
                 gtk_accessible_value_equal(Cur', v, w).val = TRUE]_vars

\* two values made for one object outlived it: both links are cleared and the
\* values are equal
C20_Witness ==
  \E v, w \in Slots :
    /\ v # w
    /\ IsLive(v) /\ IsLive(w)
    /\ IsKind(v, GTK_REFERENCE_ACCESSIBLE_VALUE)
    /\ IsKind(w, GTK_REFERENCE_ACCESSIBLE_VALUE)
    /\ heap[v].arg.o # NULL
    /\ heap[v].arg.o = heap[w].arg.o
    /\ heap[v].arg.o \notin objects
    /\ heap[v].ref = NULL /\ heap[w].ref = NULL
    /\ gtk_accessible_value_equal(Cur, v, w).val = TRUE

====
